---- MODULE Spec2Model ----
(***************************************************************************)
(* Model of the layered background-removal editor:                         *)
(*   src/App.tsx                      application state and handlers       *)
(*   src/components/ImageWorkspace.tsx  base / mask / history effects      *)
(*   src/services/geminiService.ts    the AI removal call                  *)
(*                                                                         *)
(* A canvas is a record [w, h, px] with px the row-major sequence of       *)
(* <<r, g, b, a>> pixels, 8 bits per channel.  Every handler together with *)
(* the React effects its state change schedules is one action (state       *)
(* updates made in one callback are batched into one render).  The three   *)
(* asynchronous boundaries of the program are separate actions: the 100 ms *)
(* timer of handleAutoRemove, the await of the AI call, the load event of  *)
(* the Image that decodes the AI result, and the await of the naming call. *)
(*                                                                         *)
(* Modelling decisions:                                                    *)
(*   - triggerUndo and triggerManualApply are props whose parent is not    *)
(*     among the files; they are counters that are only ever raised, as    *)
(*     triggerAutoRemove is in App.tsx;                                    *)
(*   - manualMaskPreview is a prop that App.tsx does not pass; it is a     *)
(*     boolean its parent may flip between strokes;                        *)
(*   - analyzeImageForNaming is not among the files; it is a call that     *)
(*     returns a filename string some time after it was made;              *)
(*   - removeBackgroundSmart (utils/imageProcessing) is not among the      *)
(*     files either and follows its description: flood fill from the       *)
(*     border within the tolerance, then feathering passes;                *)
(*   - canvases store pixels without premultiplication loss, the edge of a *)
(*     brush stamp is antialiased by area sampling, and a scaled drawImage *)
(*     samples the nearest pixel.                                          *)
(***************************************************************************)
EXTENDS Integers, Sequences, FiniteSets, TLC

VARIABLES
    originalImage,           \* App state.originalImage: Null or a source id
    processedImage,          \* App state.processedImage: Null or a data URL
    isProcessing,            \* App state.isProcessing
    brushSize,               \* App state.brushSize
    tolerance,               \* App state.tolerance
    smoothing,               \* App state.smoothing
    triggerAutoRemove,       \* App useState counter
    processedImageOverride,  \* App useState: Null or the AI data URL
    triggerUndo,             \* prop of ImageWorkspace (parent counter)
    triggerManualApply,      \* prop of ImageWorkspace (parent counter)
    baseLayer,               \* baseLayerRef.current: Null or a canvas
    maskLayer,               \* maskLayerRef.current: Null or a canvas
    history,                 \* historyRef.current: sequence of ImageData
    isDrawing,               \* ImageWorkspace state
    autoTimers,              \* number of pending setTimeout callbacks
    aiPending,               \* AI calls awaiting their response
    aiIssued,                \* number of AI calls made so far
    decoding,                \* Images created by the AI override effect, not yet loaded
    loads,                   \* number of images loaded so far
    alertShown,              \* whether the step just taken called alert(...)
    manualMaskPreview,       \* prop of ImageWorkspace: TRUE = preview, FALSE = red mask
    display,                 \* the raster of displayCanvasRef.current
    fileName,                \* App state.fileName
    aiSuggestedName,         \* App state.aiSuggestedName: Null or a name
    isAnalysing,             \* App state.isAnalysing
    naming,                  \* analyzeImageForNaming calls awaiting their result,
                             \* each with the number of the load it was made under
    lastOp,                  \* bookkeeping: the operation that ran last
    before,                  \* bookkeeping: base and mask before the last commit or auto-removal
    aiNote,                  \* bookkeeping: what the last AI step delivered
    log                      \* bookkeeping: snapshots pushed since the last reset or undo

vars == << originalImage, processedImage, isProcessing, brushSize, tolerance,
           smoothing, triggerAutoRemove, processedImageOverride, triggerUndo,
           triggerManualApply, baseLayer, maskLayer, history, isDrawing,
           autoTimers, aiPending, aiIssued, decoding, loads, alertShown,
           manualMaskPreview, display, fileName, aiSuggestedName, isAnalysing,
           naming, lastOp, before, aiNote, log >>

Null == "null"                               \* a null image or data URL string
NoCanvas == [w |-> 0, h |-> 0, px |-> <<>>]  \* a canvas ref whose current is null
NoImage == [mime |-> "none"]                 \* state.processedImage === null

(***************************************************************************)
(* Bounds of the model.                                                    *)
(***************************************************************************)
MaxLoads == 2       \* images loaded in one run
MaxAuto == 1        \* clicks on "Apply Smart Remove"
MaxAi == 2          \* clicks on "Gemini 2.5 Remove"
MaxUndo == 1        \* undo triggers
MaxApply == 1       \* manual-apply triggers
DeepResets == 1     \* auto-removals and AI calls together, in the history-depth system
DeepUndo == 1       \* as MaxUndo, in the history-depth system
DeepApply == 25     \* as MaxApply, in the history-depth system
TuneUndo == 2       \* as MaxUndo, in the slider system
TuneApply == 2      \* as MaxApply, in the slider system
PaintUndo == 1      \* as MaxUndo, in the brush system
PaintApply == 2     \* as MaxApply, in the brush system
SegAuto == 1        \* as MaxAuto, in the segmentation system
ViewUndo == 1       \* as MaxUndo, in the rendering system
ViewApply == 1      \* as MaxApply, in the rendering system
StackUndo == 19     \* as MaxUndo, in the undo-stack system
StackApply == 19    \* as MaxApply, in the undo-stack system
LiveAi == 2         \* as MaxAi, in the system with a service that answers
LiveAuto == 1       \* as MaxAuto, in the system with a service that answers
LiveApply == 1      \* as MaxApply, in the system with a service that answers

(***************************************************************************)
(* Program constants.                                                      *)
(***************************************************************************)
HistoryCap == 20        \* ImageWorkspace.tsx:223
DefaultBrush == 30      \* App.tsx:14
MinBrush == 5           \* Toolbar.tsx:132
DefaultTolerance == 15  \* App.tsx:15
MinTolerance == 1       \* Toolbar.tsx:82
MaxTolerance == 100     \* Toolbar.tsx:83
EditOverlayAlpha == 60  \* ImageWorkspace.tsx:68, in percent

(***************************************************************************)
(* Canvas primitives.                                                      *)
(***************************************************************************)
Transparent == <<0, 0, 0, 0>>

\* document.createElement('canvas') with width and height set; clearRect over
\* the whole canvas gives the same raster.
Blank(w, h) == [w |-> w, h |-> h, px |-> [i \in 1..(w * h) |-> Transparent]]

PixelAt(img, x, y) == img.px[y * img.w + x + 1]

\* Canvas 'source-over' of one pixel s onto d.
SourceOver(s, d) ==
    LET sa == s[4]
        da == d[4]
        rest == (da * (255 - sa)) \div 255
        oa == sa + rest
        ch(k) == (s[k] * sa + d[k] * rest) \div oa
    IN  IF oa = 0 THEN Transparent ELSE <<ch(1), ch(2), ch(3), oa>>

\* Canvas 'destination-out' of one pixel s onto d: d keeps (1 - alpha(s)) of its alpha.
DestinationOut(s, d) ==
    LET oa == (d[4] * (255 - s[4])) \div 255
    IN  IF oa = 0 THEN Transparent ELSE <<d[1], d[2], d[3], oa>>

\* One pixel s composited onto d under ctx.globalCompositeOperation = op.
Composite(op, s, d) ==
    IF op = "destination-out" THEN DestinationOut(s, d) ELSE SourceOver(s, d)

\* ctx.drawImage(img, 0, 0) under the operation op: unscaled, clipped to the canvas.
DrawImage(canvas, img, op) ==
    [canvas EXCEPT !.px =
        [i \in 1..(canvas.w * canvas.h) |->
            LET x == (i - 1) % canvas.w
                y == (i - 1) \div canvas.w
            IN  IF x < img.w /\ y < img.h
                THEN Composite(op, PixelAt(img, x, y), canvas.px[i])
                ELSE canvas.px[i]]]

\* ctx.drawImage(img, 0, 0, w, h): img stretched over the w x h rectangle
\* (nearest-neighbour sampling), source-over.
DrawImageScaled(canvas, img, w, h) ==
    [canvas EXCEPT !.px =
        [i \in 1..(canvas.w * canvas.h) |->
            LET x == (i - 1) % canvas.w
                y == (i - 1) \div canvas.w
            IN  IF x < w /\ y < h
                THEN SourceOver(PixelAt(img, (x * img.w) \div w, (y * img.h) \div h),
                                canvas.px[i])
                ELSE canvas.px[i]]]

\* ctx.getImageData(0, 0, w, h): a copy of the raster.
GetImageData(canvas) == [w |-> canvas.w, h |-> canvas.h, px |-> canvas.px]

\* ctx.putImageData(data, 0, 0): overwrites (no blending), clipped to the canvas.
PutImageData(canvas, data) ==
    [canvas EXCEPT !.px =
        [i \in 1..(canvas.w * canvas.h) |->
            LET x == (i - 1) % canvas.w
                y == (i - 1) \div canvas.w
            IN  IF x < data.w /\ y < data.h THEN PixelAt(data, x, y) ELSE canvas.px[i]]]

\* canvas.toDataURL('image/png')
ToDataURL(canvas) == [mime |-> "image/png", data |-> GetImageData(canvas)]

IsClear(canvas) == \A i \in 1..(canvas.w * canvas.h) : canvas.px[i][4] = 0

\* ctx.clearRect(0, 0, w, h)
ClearRect(canvas, w, h) ==
    [canvas EXCEPT !.px =
        [i \in 1..(canvas.w * canvas.h) |->
            IF (i - 1) % canvas.w < w /\ (i - 1) \div canvas.w < h
            THEN Transparent ELSE canvas.px[i]]]

(***************************************************************************)
(* Inputs: the images a run may upload and the payloads the AI may return. *)
(***************************************************************************)
Grey(v) == <<v, v, v, 255>>

\* S1: a 12 x 1 strip, light background with a dark subject in the middle.
\* S2: a 6 x 1 strip of one colour.
\* S3: a 24 x 1 strip, a ramp of greys, for long runs of small erasures.
Sources == {"S1", "S2"}

SourceImage(id) ==
    IF id = "S1"
    THEN [w |-> 12, h |-> 1,
          px |-> [i \in 1..12 |-> IF i \in {6, 7} THEN Grey(10) ELSE Grey(200)]]
    ELSE IF id = "S3"
    THEN [w |-> 24, h |-> 1, px |-> [i \in 1..24 |-> Grey(100 + i)]]
    ELSE IF id = "U4"
    THEN [w |-> 4, h |-> 4, px |-> [i \in 1..16 |-> Grey(128)]]
    ELSE IF id = "U3"
    THEN [w |-> 3, h |-> 3, px |-> [i \in 1..9 |-> <<10, 10, 10, 255>>]]
    ELSE [w |-> 6, h |-> 1, px |-> [i \in 1..6 |-> Grey(50)]]

\* Uploads for the segmentation alone: U4, a 4 x 4 square of one grey, U3, a
\* 3 x 3 square of one near-black, and the strip S1 with its subject.
SegSources == {"U4", "U3", "S1"}

\* state.fileName before any upload (App.tsx:12), and file.name.split('.')[0]
\* of an upload: the files are named after their ids.
DefaultFileName == "processed_image"
FileNameOf(id) == id

\* Names analyzeImageForNaming may come back with.
SuggestedNames == {"cutout"}

\* A1: a 12 x 1 cut-out, A2: a 6 x 1 cut-out, "garbage": bytes that are no image.
AiPayloads == {"A1", "A2", "garbage"}

\* What an Image element makes of a data URL: the decoded raster, or NoCanvas
\* when the bytes do not decode (the error event, which nobody handles).
DecodeImage(url) ==
    IF url = "A1"
    THEN [w |-> 12, h |-> 1,
          px |-> [i \in 1..12 |-> IF i \in {6, 7} THEN Grey(12) ELSE Transparent]]
    ELSE IF url = "A2"
    THEN [w |-> 6, h |-> 1,
          px |-> [i \in 1..6 |-> IF i \in {3, 4} THEN Grey(12) ELSE Transparent]]
    ELSE NoCanvas

Tolerances == {DefaultTolerance, MaxTolerance}
Smoothings == {0, 1}
BrushSizes == {DefaultBrush, MinBrush}

(***************************************************************************)
(* removeBackgroundSmart (utils/imageProcessing, not among the sources):   *)
(* border-seeded flood fill within a tolerance of the mean border colour,  *)
(* then alpha feathering.                                                  *)
(***************************************************************************)
Abs(n) == IF n < 0 THEN -n ELSE n
Max2(a, b) == IF a > b THEN a ELSE b

RECURSIVE SumOver(_, _, _)
SumOver(S, f, k) ==
    IF S = {} THEN 0
    ELSE LET i == CHOOSE j \in S : TRUE IN f[i][k] + SumOver(S \ {i}, f, k)

BorderOf(canvas) ==
    {i \in 1..(canvas.w * canvas.h) :
        LET x == (i - 1) % canvas.w
            y == (i - 1) \div canvas.w
        IN  x = 0 \/ y = 0 \/ x = canvas.w - 1 \/ y = canvas.h - 1}

Neighbours(canvas, i) ==
    LET x == (i - 1) % canvas.w
        y == (i - 1) \div canvas.w
    IN  {j \in 1..(canvas.w * canvas.h) :
            LET u == (j - 1) % canvas.w
                v == (j - 1) \div canvas.w
            IN  Abs(u - x) + Abs(v - y) = 1}

ReferenceColour(canvas) ==
    LET B == BorderOf(canvas)
        n == Cardinality(B)
    IN  << SumOver(B, canvas.px, 1) \div n, SumOver(B, canvas.px, 2) \div n,
           SumOver(B, canvas.px, 3) \div n >>

ColourDistance(p, ref) ==
    Max2(Abs(p[1] - ref[1]), Max2(Abs(p[2] - ref[2]), Abs(p[3] - ref[3])))

Threshold(tol) == (tol * 255) \div 100

\* A variant of the flood fill that stops at the seeds; the segmentation
\* properties must tell it from Flood.
FloodSeedsOnly(canvas, similar, absorbed) == absorbed

RECURSIVE Flood(_, _, _)
Flood(canvas, similar, absorbed) ==
    LET more == {j \in similar \ absorbed :
                    \E i \in absorbed : j \in Neighbours(canvas, i)}
    IN  IF more = {} THEN absorbed ELSE Flood(canvas, similar, absorbed \cup more)

Background(canvas, tol) ==
    LET ref == ReferenceColour(canvas)
        similar == {i \in 1..(canvas.w * canvas.h) :
                       ColourDistance(canvas.px[i], ref) <= Threshold(tol)}
    IN  Flood(canvas, similar, similar \cap BorderOf(canvas))

\* One feathering pass: the alpha of a pixel on the cut edge becomes the mean
\* alpha of the pixel and its 4-neighbours; colour channels are not touched.
FeatherPass(canvas) ==
    [canvas EXCEPT !.px =
        [i \in 1..(canvas.w * canvas.h) |->
            LET N == Neighbours(canvas, i) \cup {i}
                onEdge == /\ \E j \in N : canvas.px[j][4] = 0
                          /\ \E j \in N : canvas.px[j][4] > 0
                p == canvas.px[i]
            IN  IF onEdge
                THEN <<p[1], p[2], p[3], SumOver(N, canvas.px, 4) \div Cardinality(N)>>
                ELSE p]]

RECURSIVE Feather(_, _)
Feather(canvas, passes) ==
    IF passes = 0 THEN canvas ELSE Feather(FeatherPass(canvas), passes - 1)

\* The raster the canvas holds after the result is put back: a pixel of alpha 0
\* reads back as transparent black.
Premultiplied(canvas) ==
    [canvas EXCEPT !.px =
        [i \in 1..(canvas.w * canvas.h) |->
            IF canvas.px[i][4] = 0 THEN Transparent ELSE canvas.px[i]]]

RemoveBackgroundSmart(canvas, tol, passes) ==
    LET bg == Background(canvas, tol)
        cut == [canvas EXCEPT !.px =
                   [i \in 1..(canvas.w * canvas.h) |->
                       IF i \in bg
                       THEN <<canvas.px[i][1], canvas.px[i][2], canvas.px[i][3], 0>>
                       ELSE canvas.px[i]]]
    IN  Premultiplied(Feather(cut, passes))

(***************************************************************************)
(* The effects of ImageWorkspace, as functions of the workspace refs       *)
(*   ws = [base |-> baseLayerRef, mask |-> maskLayerRef,                   *)
(*         history |-> historyRef].                                        *)
(***************************************************************************)
Unmounted == [base |-> NoCanvas, mask |-> NoCanvas, history |-> <<>>]

\* Initialization effect: fresh base with the image drawn on it, fresh mask,
\* history reset to one snapshot.
InitEffect(img) ==
    LET base == DrawImage(Blank(img.w, img.h), img, "source-over")
    IN  [base |-> base,
         mask |-> Blank(img.w, img.h),
         history |-> <<GetImageData(base)>>]

\* A variant of the onload handler that gives the base the size of the decoded
\* image, as a single-canvas workspace would; the size properties must tell
\* it from AiOverrideOnload.
AiOverrideResizing(ws, img) ==
    LET base == DrawImage(Blank(img.w, img.h), img, "source-over")
    IN  [base |-> base,
         mask |-> ClearRect(ws.mask, ws.mask.w, ws.mask.h),
         history |-> <<GetImageData(base)>>]

\* img.onload of the AI override effect: the decoded image is drawn stretched
\* to the width and height the base already has.
AiOverrideOnload(ws, img) ==
    LET w == ws.base.w
        h == ws.base.h
        base == DrawImageScaled(ClearRect(ws.base, w, h), img, w, h)
    IN  [base |-> base,
         mask |-> ClearRect(ws.mask, w, h),
         history |-> <<GetImageData(base)>>]

\* A variant of the auto-remove effect that segments the base as it stands,
\* without drawing the original image first; the auto-removal properties must
\* tell it from AutoRemoveEffect.
AutoRemoveOnCurrent(ws, img, tol, passes) ==
    LET base == RemoveBackgroundSmart(ws.base, tol, passes)
    IN  [base |-> base,
         mask |-> ClearRect(ws.mask, ws.mask.w, ws.mask.h),
         history |-> <<GetImageData(base)>>]

\* Auto-remove effect body (after its trigger guard).
AutoRemoveEffect(ws, img, tol, passes) ==
    LET w == ws.base.w
        h == ws.base.h
        drawn == DrawImage(ClearRect(ws.base, w, h), img, "source-over")
        base == RemoveBackgroundSmart(drawn, tol, passes)
    IN  [base |-> base,
         mask |-> ClearRect(ws.mask, w, h),
         history |-> <<GetImageData(base)>>]

\* A variant of the undo guard that also pops the last snapshot; the undo
\* properties must tell it from CanUndo.
CanUndoBaseline(h) == Len(h) > 0

\* The guard under which the undo effect pops.
CanUndo(h) == Len(h) > 1

\* A variant of the undo effect that goes back to the oldest snapshot at once;
\* the undo-stack properties must tell it from UndoEffect.
UndoToOldest(ws) ==
    IF Len(ws.history) > 1
    THEN [ws EXCEPT !.history = <<ws.history[1]>>,
                    !.base = PutImageData(ws.base, ws.history[1])]
    ELSE ws

\* A variant of the undo effect that pops the history and leaves the canvas as
\* it is; the undo properties must tell it from UndoEffect.
UndoWithoutRestore(ws) ==
    IF Len(ws.history) > 1
    THEN [ws EXCEPT !.history = SubSeq(ws.history, 1, Len(ws.history) - 1)]
    ELSE ws

\* Undo effect body (after its trigger guard).  Were the history popped to
\* empty, prevState would be undefined and putImageData would throw, leaving
\* the base as it was.
UndoEffect(ws) ==
    IF Len(ws.history) > 0 /\ CanUndo(ws.history)
    THEN LET popped == SubSeq(ws.history, 1, Len(ws.history) - 1)
         IN  IF popped = <<>>
             THEN [ws EXCEPT !.history = popped]
             ELSE [ws EXCEPT !.history = popped,
                             !.base = PutImageData(ws.base, popped[Len(popped)])]
    ELSE ws

\* A variant of the eviction that empties the history once it is over its
\* capacity; the history properties must tell it from Evict.
EvictAll(h) == IF Len(h) > HistoryCap THEN <<>> ELSE h

\* A variant of the eviction that drops the newest snapshot in place of the
\* oldest; the history properties must tell it from Evict.
EvictNewest(h) == IF Len(h) > HistoryCap THEN SubSeq(h, 1, Len(h) - 1) ELSE h

\* historyRef.current.shift() once the history exceeds its capacity.
Evict(h) == IF Len(h) > HistoryCap THEN Tail(h) ELSE h

\* A variant of the manual-apply effect that pushes the snapshot taken before
\* the mask is composited; the history properties must tell it from
\* ManualApplyEffect.
ManualApplyStaleSnapshot(ws) ==
    [base |-> DrawImage(ws.base, ws.mask, "destination-out"),
     mask |-> ClearRect(ws.mask, ws.mask.w, ws.mask.h),
     history |-> Evict(Append(ws.history, GetImageData(ws.base)))]

\* Manual-apply effect body (after its guard, which tests the trigger and the
\* refs, never the content of the mask).
ManualApplyEffect(ws) ==
    LET base == DrawImage(ws.base, ws.mask, "destination-out")
    IN  [base |-> base,
         mask |-> ClearRect(ws.mask, ws.mask.w, ws.mask.h),
         history |-> Evict(Append(ws.history, GetImageData(base)))]

Red == <<255, 0, 0, 255>>

\* The fill of a path is antialiased: a pixel on the edge of the disc gets
\* the share of the paint that the disc covers of it, taken here on a grid of
\* SubSamples x SubSamples points per pixel.
SubSamples == 4

\* How many sample points of pixel i lie within the arc of radius r centred at
\* (cx2/2, cy2/2); coordinates are in units of 1/(2 * SubSamples) pixel.  A
\* pixel whose farthest corner is within the arc has all its points within,
\* one whose nearest point is beyond the arc has none.
Coverage(canvas, i, cx2, cy2, r) ==
    LET x == (i - 1) % canvas.w
        y == (i - 1) \div canvas.w
        u == 2 * SubSamples
        far(a, c) == Max2(Abs(u * a - SubSamples * c), Abs(u * (a + 1) - SubSamples * c))
        near(a, c) == IF SubSamples * c < u * a THEN u * a - SubSamples * c
                      ELSE IF SubSamples * c > u * (a + 1)
                      THEN SubSamples * c - u * (a + 1) ELSE 0
        inside(kx, ky) ==
            LET dx == u * x + 2 * kx + 1 - SubSamples * cx2
                dy == u * y + 2 * ky + 1 - SubSamples * cy2
            IN  dx * dx + dy * dy <= u * u * r * r
    IN  IF far(x, cx2) * far(x, cx2) + far(y, cy2) * far(y, cy2) <= u * u * r * r
        THEN SubSamples * SubSamples
        ELSE IF near(x, cx2) * near(x, cx2) + near(y, cy2) * near(y, cy2) > u * u * r * r
        THEN 0
        ELSE Cardinality({k \in (0..(SubSamples - 1)) \X (0..(SubSamples - 1)) :
                             inside(k[1], k[2])})

\* A variant of the brush that erases the base under the disc as it paints,
\* as a single-canvas eraser would; the stroke properties must tell it from
\* DrawOnMask.
DrawOnBase(ws, cx2, cy2, r) ==
    [ws EXCEPT !.base.px =
        [i \in 1..(ws.base.w * ws.base.h) |->
            IF Coverage(ws.base, i, cx2, cy2, r) = 0
            THEN ws.base.px[i] ELSE Transparent]]

\* drawOnMask: one red disc stamped on the mask, source-over.
DrawOnMask(ws, cx2, cy2, r) ==
    [ws EXCEPT !.mask.px =
        [i \in 1..(ws.mask.w * ws.mask.h) |->
            LET share == Coverage(ws.mask, i, cx2, cy2, r)
                paint == <<Red[1], Red[2], Red[3],
                           (Red[4] * share) \div (SubSamples * SubSamples)>>
            IN  IF share = 0 THEN ws.mask.px[i]
                ELSE IF share = SubSamples * SubSamples THEN Red
                ELSE SourceOver(paint, ws.mask.px[i])]]

\* An image as drawImage sees it under ctx.globalAlpha = percent / 100.
WithGlobalAlpha(img, percent) ==
    [img EXCEPT !.px = [i \in 1..(img.w * img.h) |->
                           <<img.px[i][1], img.px[i][2], img.px[i][3],
                             (img.px[i][4] * percent) \div 100>>]]

\* renderCanvas: the display canvas (sized as the base by the initialization
\* effect) cleared, the base drawn on it, then the mask: erasing in preview
\* mode, as a translucent overlay in edit mode.
RenderCanvas(ws, preview) ==
    LET cleared == Blank(ws.base.w, ws.base.h)
        based == DrawImage(cleared, ws.base, "source-over")
    IN  IF preview
        THEN DrawImage(based, ws.mask, "destination-out")
        ELSE DrawImage(based, WithGlobalAlpha(ws.mask, EditOverlayAlpha), "source-over")

\* All effects of a freshly mounted ImageWorkspace, in the order they are
\* declared: initialization, AI override (its prop is null at mount), auto
\* remove, undo, manual apply; the last three return early on a zero trigger.
MountEffects(img, tol, passes, tAuto, tUndo, tApply) ==
    LET ws0 == InitEffect(img)
        ws1 == IF tAuto = 0 THEN ws0 ELSE AutoRemoveEffect(ws0, img, tol, passes)
        ws2 == IF tUndo = 0 THEN ws1 ELSE UndoEffect(ws1)
    IN  IF tApply = 0 THEN ws2 ELSE ManualApplyEffect(ws2)

(***************************************************************************)
(* State machine.                                                          *)
(*                                                                         *)
(* The toolbar is operated with the pointer, so its handlers run only      *)
(* while no stroke is in progress (leaving the canvas ends the stroke);    *)
(* timers, AI responses and image loads arrive at any time.                *)
(***************************************************************************)
Mounted == originalImage # Null

WS == [base |-> baseLayer, mask |-> maskLayer, history |-> history]

NoLayers == [base |-> NoCanvas, mask |-> NoCanvas]

\* handleDownload: the file offered is state.processedImage.
Exported == processedImage
NoAi == [kind |-> "none", stale |-> FALSE, url |-> Null]

Init ==
    /\ originalImage = Null
    /\ processedImage = NoImage
    /\ isProcessing = FALSE
    /\ brushSize = DefaultBrush
    /\ tolerance = DefaultTolerance
    /\ smoothing = 0
    /\ triggerAutoRemove = 0
    /\ processedImageOverride = Null
    /\ triggerUndo = 0
    /\ triggerManualApply = 0
    /\ baseLayer = NoCanvas
    /\ maskLayer = NoCanvas
    /\ history = <<>>
    /\ isDrawing = FALSE
    /\ autoTimers = 0
    /\ aiPending = {}
    /\ aiIssued = 0
    /\ decoding = {}
    /\ loads = 0
    /\ alertShown = FALSE
    /\ manualMaskPreview = FALSE
    /\ display = NoCanvas
    /\ fileName = DefaultFileName
    /\ aiSuggestedName = Null
    /\ isAnalysing = FALSE
    /\ naming = {}
    /\ lastOp = "other"
    /\ before = NoLayers
    /\ aiNote = NoAi
    /\ log = <<>>

\* The refs after a handler or an effect that ends with renderCanvas(), the
\* renderCanvas being the one of the render in which manualMaskPreview = mode.
SetRefsIn(ws, mode) ==
    /\ baseLayer' = ws.base
    /\ maskLayer' = ws.mask
    /\ history' = ws.history
    /\ display' = RenderCanvas(ws, mode)

\* The same for a handler or an effect of the current render.
SetRefs(ws) ==
    /\ SetRefsIn(ws, manualMaskPreview)
    /\ UNCHANGED manualMaskPreview

\* A step that leaves the preview prop and the display canvas alone.
ViewKept == UNCHANGED << manualMaskPreview, display >>

\* A step that leaves the naming state of App alone.
NamesKept == UNCHANGED << fileName, aiSuggestedName, isAnalysing, naming >>

\* handleProcessedImageUpdate(url), on a state whose isAnalysing and
\* aiSuggestedName are as given (a load has just written them): the data URL
\* is stored, and a naming call starts unless one is under way or a name has
\* been suggested already.
ProcessedImageUpdate(url, analysing, suggested) ==
    /\ processedImage' = url
    /\ IF ~analysing /\ suggested = Null /\ originalImage' # Null
       THEN /\ isAnalysing' = TRUE
            /\ naming' = naming \cup {[load |-> loads']}
       ELSE /\ isAnalysing' = analysing
            /\ naming' = naming

\* The refs after an effect, and the data URL it hands to onProcessedImageUpdate.
SetWorkspace(ws) ==
    /\ SetRefs(ws)
    /\ ProcessedImageUpdate(ToDataURL(ws.base), isAnalysing, aiSuggestedName)
    /\ UNCHANGED << fileName, aiSuggestedName >>

\* Bookkeeping of a step that no property singles out.
Plain ==
    /\ alertShown' = FALSE
    /\ lastOp' = "other"
    /\ before' = NoLayers
    /\ aiNote' = NoAi

\* Bookkeeping of a step that stamps the brush.
Stroke ==
    /\ alertShown' = FALSE
    /\ lastOp' = "stroke"
    /\ before' = NoLayers
    /\ aiNote' = NoAi

\* AI calls and decodes outstanding when an auto-removal runs were issued
\* for the state it replaces.
Outdated(S) == {[r EXCEPT !.stale = TRUE] : r \in S}

\* The same for those outstanding when a different image is loaded.
OutdatedBy(S, id) == {IF r.src # id THEN [r EXCEPT !.stale = TRUE] ELSE r : r \in S}

\* handleImageUpload / handleDrop, at img.onload: the upload screen is showing,
\* so ImageWorkspace mounts and runs every effect.
LoadImage(id) ==
    /\ originalImage = Null
    /\ loads < MaxLoads
    /\ loads' = loads + 1
    /\ originalImage' = id
    /\ processedImageOverride' = Null
    /\ SetRefs(MountEffects(SourceImage(id), tolerance, smoothing,
                            triggerAutoRemove, triggerUndo, triggerManualApply))
    /\ fileName' = FileNameOf(id)
    /\ \E via \in {"input", "drop"} :
          aiSuggestedName' = IF via = "drop" THEN Null ELSE aiSuggestedName
    /\ ProcessedImageUpdate(ToDataURL(baseLayer'), FALSE, aiSuggestedName')
    /\ isDrawing' = FALSE
    /\ aiPending' = OutdatedBy(aiPending, id)
    /\ decoding' = OutdatedBy(decoding, id)
    /\ log' = history'
    /\ lastOp' = "load"
    /\ before' = NoLayers
    /\ aiNote' = NoAi
    /\ alertShown' = FALSE
    /\ UNCHANGED << isProcessing, brushSize, tolerance, smoothing, triggerAutoRemove,
                    triggerUndo, triggerManualApply, autoTimers, aiIssued >>

\* onUploadClick: originalImage becomes null and ImageWorkspace unmounts.  An
\* Image still decoding keeps drawing into the canvas of the unmounted
\* instance, whose size it remembers.
NewImageClick ==
    /\ Mounted
    /\ ~isDrawing
    /\ loads < MaxLoads
    /\ originalImage' = Null
    /\ baseLayer' = NoCanvas
    /\ maskLayer' = NoCanvas
    /\ history' = <<>>
    /\ decoding' = {IF d.live THEN [d EXCEPT !.live = FALSE, !.w = baseLayer.w,
                                             !.h = baseLayer.h]
                    ELSE d : d \in decoding}
    /\ log' = <<>>
    /\ Plain
    /\ UNCHANGED << processedImage, isProcessing, brushSize, tolerance, smoothing,
                    triggerAutoRemove, processedImageOverride, triggerUndo,
                    triggerManualApply, isDrawing, autoTimers, aiPending, aiIssued,
                    loads >>
    /\ display' = NoCanvas
    /\ UNCHANGED manualMaskPreview
    /\ NamesKept

\* The "Apply Smart Remove" button: disabled={state.isProcessing}.
AutoRemoveButtonEnabled == ~isProcessing

\* handleAutoRemove, up to setTimeout.
AutoRemoveClick(cap) ==
    /\ Mounted
    /\ ~isDrawing
    /\ AutoRemoveButtonEnabled
    /\ triggerAutoRemove + autoTimers < cap
    /\ isProcessing' = TRUE
    /\ autoTimers' = autoTimers + 1
    /\ Plain
    /\ UNCHANGED << originalImage, processedImage, brushSize, tolerance, smoothing,
                    triggerAutoRemove, processedImageOverride, triggerUndo,
                    triggerManualApply, baseLayer, maskLayer, history, isDrawing,
                    aiPending, aiIssued, decoding, loads, log >>
    /\ ViewKept
    /\ NamesKept

\* The setTimeout callback of handleAutoRemove and, when ImageWorkspace is
\* mounted, the auto-remove effect its new trigger value schedules.
AutoRemoveTimer ==
    /\ autoTimers > 0
    /\ autoTimers' = autoTimers - 1
    /\ triggerAutoRemove' = triggerAutoRemove + 1
    /\ processedImageOverride' = Null
    /\ isProcessing' = FALSE
    /\ IF Mounted
       THEN /\ SetWorkspace(AutoRemoveEffect(WS, SourceImage(originalImage),
                                             tolerance, smoothing))
            /\ aiPending' = Outdated(aiPending)
            /\ decoding' = Outdated(decoding)
            /\ log' = history'
            /\ lastOp' = "autoRemove"
            /\ before' = [base |-> baseLayer, mask |-> maskLayer]
       ELSE /\ UNCHANGED << baseLayer, maskLayer, history, processedImage, aiPending,
                            decoding, log >>
            /\ ViewKept
            /\ NamesKept
            /\ lastOp' = "other"
            /\ before' = NoLayers
    /\ aiNote' = NoAi
    /\ alertShown' = FALSE
    /\ UNCHANGED << originalImage, brushSize, tolerance, smoothing, triggerUndo,
                    triggerManualApply, isDrawing, aiIssued, loads >>

\* onToleranceChange: tolerance is a dependency of the auto-remove effect,
\* which runs again once its trigger is no longer zero.
SetTolerance(val) ==
    /\ Mounted
    /\ ~isDrawing
    /\ val # tolerance
    /\ tolerance' = val
    /\ IF triggerAutoRemove # 0
       THEN /\ SetWorkspace(AutoRemoveEffect(WS, SourceImage(originalImage), val,
                                             smoothing))
            /\ log' = history'
       ELSE /\ UNCHANGED << baseLayer, maskLayer, history, processedImage, log >>
            /\ ViewKept
            /\ NamesKept
    /\ Plain
    /\ UNCHANGED << originalImage, isProcessing, brushSize, smoothing,
                    triggerAutoRemove, processedImageOverride, triggerUndo,
                    triggerManualApply, isDrawing, autoTimers, aiPending, aiIssued,
                    decoding, loads >>

\* onSmoothingChange: smoothing is a dependency of the auto-remove effect too.
SetSmoothing(val) ==
    /\ Mounted
    /\ ~isDrawing
    /\ val # smoothing
    /\ smoothing' = val
    /\ IF triggerAutoRemove # 0
       THEN /\ SetWorkspace(AutoRemoveEffect(WS, SourceImage(originalImage), tolerance,
                                             val))
            /\ log' = history'
       ELSE /\ UNCHANGED << baseLayer, maskLayer, history, processedImage, log >>
            /\ ViewKept
            /\ NamesKept
    /\ Plain
    /\ UNCHANGED << originalImage, isProcessing, brushSize, tolerance,
                    triggerAutoRemove, processedImageOverride, triggerUndo,
                    triggerManualApply, isDrawing, autoTimers, aiPending, aiIssued,
                    decoding, loads >>

\* onBrushSizeChange
SetBrushSize(val) ==
    /\ Mounted
    /\ ~isDrawing
    /\ val # brushSize
    /\ brushSize' = val
    /\ Plain
    /\ UNCHANGED << originalImage, processedImage, isProcessing, tolerance, smoothing,
                    triggerAutoRemove, processedImageOverride, triggerUndo,
                    triggerManualApply, baseLayer, maskLayer, history, isDrawing,
                    autoTimers, aiPending, aiIssued, decoding, loads, log >>
    /\ ViewKept
    /\ NamesKept

\* Canvas points of the mouse, in half pixels: the left end and the right end
\* of the canvas, on its first row.  A brush centred there covers whole pixels.
PaintPoints(canvas) == {<<0, 1>>, <<2 * canvas.w, 1>>}

\* The middle of the first pixel: the edge of a brush centred there cuts
\* through a pixel, which gets part of the paint.
EdgePoints(canvas) == {<<1, 1>>}

\* handleMouseDown
MouseDown(pt) ==
    /\ Mounted
    /\ ~isDrawing
    /\ isDrawing' = TRUE
    /\ SetRefs(DrawOnMask(WS, pt[1], pt[2], brushSize))
    /\ Stroke
    /\ UNCHANGED << originalImage, processedImage, isProcessing, brushSize, tolerance,
                    smoothing, triggerAutoRemove, processedImageOverride, triggerUndo,
                    triggerManualApply, autoTimers, aiPending, aiIssued, decoding,
                    loads, log >>
    /\ NamesKept

\* handleMouseMove while the button is held
MouseMove(pt) ==
    /\ Mounted
    /\ isDrawing
    /\ SetRefs(DrawOnMask(WS, pt[1], pt[2], brushSize))
    /\ Stroke
    /\ UNCHANGED << originalImage, processedImage, isProcessing, brushSize, tolerance,
                    smoothing, triggerAutoRemove, processedImageOverride, triggerUndo,
                    triggerManualApply, isDrawing, autoTimers, aiPending, aiIssued,
                    decoding, loads, log >>
    /\ NamesKept

\* A variant of the rerender effect that draws the preview into the base
\* layer itself; the rendering properties must tell it from RenderEffect.
RenderEffectInPlace(ws) ==
    [ws EXCEPT !.base = DrawImage(ws.base, ws.mask, "destination-out")]

\* The effect that reruns renderCanvas when manualMaskPreview changes, as a
\* function of the refs: renderCanvas draws on the display canvas alone.
RenderEffect(ws) == ws

\* The parent flips manualMaskPreview and the rerender effect runs.
TogglePreview ==
    /\ Mounted
    /\ ~isDrawing
    /\ manualMaskPreview' = ~manualMaskPreview
    /\ SetRefsIn(RenderEffect(WS), manualMaskPreview')
    /\ NamesKept
    /\ alertShown' = FALSE
    /\ lastOp' = "render"
    /\ before' = [base |-> baseLayer, mask |-> maskLayer]
    /\ aiNote' = NoAi
    /\ UNCHANGED << originalImage, processedImage, isProcessing, brushSize, tolerance,
                    smoothing, triggerAutoRemove, processedImageOverride, triggerUndo,
                    triggerManualApply, isDrawing, autoTimers, aiPending, aiIssued,
                    decoding, loads, log >>

\* handleMouseUp (also onMouseLeave)
MouseUp ==
    /\ Mounted
    /\ isDrawing
    /\ isDrawing' = FALSE
    /\ Plain
    /\ UNCHANGED << originalImage, processedImage, isProcessing, brushSize, tolerance,
                    smoothing, triggerAutoRemove, processedImageOverride, triggerUndo,
                    triggerManualApply, baseLayer, maskLayer, history, autoTimers,
                    aiPending, aiIssued, decoding, loads, log >>
    /\ ViewKept
    /\ NamesKept

\* The parent raises triggerUndo and the undo effect runs.  The bookkeeping
\* keeps the layers recorded by a commit or auto-removal that came just before.
Undo(cap) ==
    /\ Mounted
    /\ ~isDrawing
    /\ triggerUndo < cap
    /\ triggerUndo' = triggerUndo + 1
    /\ IF Len(history) > 0 /\ CanUndo(history)
       THEN SetWorkspace(UndoEffect(WS))
       ELSE /\ UNCHANGED << baseLayer, maskLayer, history, processedImage >>
            /\ ViewKept
            /\ NamesKept
    /\ log' = history'
    /\ lastOp' = IF lastOp = "commit" THEN "commitUndo"
                 ELSE IF lastOp = "autoRemove" THEN "autoRemoveUndo" ELSE "other"
    /\ before' = IF lastOp \in {"commit", "autoRemove"} THEN before ELSE NoLayers
    /\ aiNote' = NoAi
    /\ alertShown' = FALSE
    /\ UNCHANGED << originalImage, isProcessing, brushSize, tolerance, smoothing,
                    triggerAutoRemove, processedImageOverride, triggerManualApply,
                    isDrawing, autoTimers, aiPending, aiIssued, decoding, loads >>

\* The parent raises triggerManualApply and the manual-apply effect runs.
CommitMask(cap) ==
    /\ Mounted
    /\ ~isDrawing
    /\ triggerManualApply < cap
    /\ triggerManualApply' = triggerManualApply + 1
    /\ SetWorkspace(ManualApplyEffect(WS))
    /\ log' = Append(log, GetImageData(baseLayer'))
    /\ lastOp' = "commit"
    /\ before' = [base |-> baseLayer, mask |-> maskLayer]
    /\ aiNote' = NoAi
    /\ alertShown' = FALSE
    /\ UNCHANGED << originalImage, isProcessing, brushSize, tolerance, smoothing,
                    triggerAutoRemove, processedImageOverride, triggerUndo, isDrawing,
                    autoTimers, aiPending, aiIssued, decoding, loads >>

(***************************************************************************)
(* The AI path.                                                            *)
(***************************************************************************)
\* What removeBackgroundWithAi may settle with: a data URL built from the first
\* inline image of the response, null when the response holds none, or the
\* error it rethrows.
AiOutcomes ==
    {[kind |-> "image", url |-> u] : u \in AiPayloads}
        \cup {[kind |-> "null", url |-> Null], [kind |-> "throw", url |-> Null]}

\* A variant of the AI override effect that clears the base before the Image
\* has loaded; the AI failure property must tell it from AiOverrideEffect.
AiOverrideEffectEager(ws, url) ==
    [ws EXCEPT !.base = ClearRect(ws.base, ws.base.w, ws.base.h)]

\* The AI override effect up to img.src = ...: it creates the Image and touches
\* no ref until the Image has loaded.
AiOverrideEffect(ws, url) == ws

\* Whether the AI override effect runs and goes past its guard when the prop
\* changes from old to new: React runs it on a changed dependency only.
OverrideEffectRuns(old, new) == new # old /\ new # Null

\* handleAiRemove, up to the await.  The call is made with the src of the
\* image that was uploaded.
AiRemoveClick(cap) ==
    /\ Mounted
    /\ ~isDrawing
    /\ ~isProcessing
    /\ aiIssued < cap
    /\ aiIssued' = aiIssued + 1
    /\ isProcessing' = TRUE
    /\ aiPending' = aiPending \cup
                        {[id |-> aiIssued + 1, src |-> originalImage, stale |-> FALSE]}
    /\ Plain
    /\ UNCHANGED << originalImage, processedImage, brushSize, tolerance, smoothing,
                    triggerAutoRemove, processedImageOverride, triggerUndo,
                    triggerManualApply, baseLayer, maskLayer, history, isDrawing,
                    autoTimers, decoding, loads, log >>
    /\ ViewKept
    /\ NamesKept

\* The image handleAiRemove passes to removeBackgroundWithAi for a request:
\* state.originalImage.src, the upload as it was read.
SentImage(req) == SourceImage(req.src)

\* A variant of handleAiRemove that clears the flag at the end of the try
\* block, which a thrown error skips; the AI properties must tell it from
\* ProcessingAfter.
ProcessingAfterTry(out) == out.kind = "throw"

\* state.isProcessing once handleAiRemove is through: its finally block runs
\* whatever the outcome.
ProcessingAfter(out) == FALSE

\* handleAiRemove after the await: the try / catch / finally (the catch block
\* alone calls alert), and the AI override effect when the override it sets is
\* a new value.
AiResponse(req, out) ==
    /\ req \in aiPending
    /\ aiPending' = aiPending \ {req}
    /\ isProcessing' = ProcessingAfter(out)
    /\ processedImageOverride' =
           IF out.kind = "image" THEN out.url ELSE processedImageOverride
    /\ LET runs == /\ Mounted
                   /\ out.kind = "image"
                   /\ OverrideEffectRuns(processedImageOverride, out.url)
           ws == IF runs THEN AiOverrideEffect(WS, out.url) ELSE WS
       IN  /\ baseLayer' = ws.base
           /\ maskLayer' = ws.mask
           /\ history' = ws.history
           /\ decoding' = IF runs
                          THEN decoding \cup {[id |-> req.id, src |-> req.src,
                                               url |-> out.url, live |-> TRUE,
                                               w |-> 0, h |-> 0,
                                               preview |-> manualMaskPreview,
                                               stale |-> req.stale]}
                          ELSE decoding
           /\ aiNote' = [kind |-> IF out.kind # "image" THEN out.kind
                                  ELSE IF runs THEN "scheduled"
                                  ELSE IF Mounted THEN "skipped" ELSE "unmounted",
                         stale |-> req.stale, url |-> out.url]
    /\ lastOp' = "aiResponse"
    /\ before' = NoLayers
    /\ alertShown' = (out.kind = "throw")
    /\ UNCHANGED << originalImage, processedImage, brushSize, tolerance, smoothing,
                    triggerAutoRemove, triggerUndo, triggerManualApply, isDrawing,
                    autoTimers, aiIssued, loads, log >>
    /\ ViewKept
    /\ NamesKept

\* img.onload of the AI override effect.  The handler of an unmounted instance
\* draws into that instance's canvas and still reports its data URL.
AiImageLoaded(d) ==
    /\ d \in decoding
    /\ DecodeImage(d.url) # NoCanvas
    /\ decoding' = decoding \ {d}
    /\ IF d.live
       THEN /\ SetRefsIn(AiOverrideOnload(WS, DecodeImage(d.url)), d.preview)
            /\ UNCHANGED manualMaskPreview
            /\ ProcessedImageUpdate(ToDataURL(baseLayer'), isAnalysing, aiSuggestedName)
            /\ log' = history'
       ELSE /\ ProcessedImageUpdate(
                   ToDataURL(DrawImageScaled(Blank(d.w, d.h), DecodeImage(d.url),
                                             d.w, d.h)),
                   isAnalysing, aiSuggestedName)
            /\ UNCHANGED << baseLayer, maskLayer, history, log >>
            /\ ViewKept
    /\ UNCHANGED << fileName, aiSuggestedName >>
    /\ lastOp' = "aiOnload"
    /\ before' = NoLayers
    /\ aiNote' = [kind |-> IF d.live THEN "applied" ELSE "dead", stale |-> d.stale,
                  url |-> d.url]
    /\ alertShown' = FALSE
    /\ UNCHANGED << originalImage, isProcessing, brushSize, tolerance, smoothing,
                    triggerAutoRemove, processedImageOverride, triggerUndo,
                    triggerManualApply, isDrawing, autoTimers, aiPending, aiIssued,
                    loads >>

\* The error event of an Image whose data URL does not decode: no handler is
\* installed, so nothing runs.
AiImageError(d) ==
    /\ d \in decoding
    /\ DecodeImage(d.url) = NoCanvas
    /\ decoding' = decoding \ {d}
    /\ lastOp' = "aiDecodeError"
    /\ before' = NoLayers
    /\ aiNote' = [kind |-> "undecodable", stale |-> d.stale, url |-> d.url]
    /\ alertShown' = FALSE
    /\ UNCHANGED << originalImage, processedImage, isProcessing, brushSize, tolerance,
                    smoothing, triggerAutoRemove, processedImageOverride, triggerUndo,
                    triggerManualApply, baseLayer, maskLayer, history, isDrawing,
                    autoTimers, aiPending, aiIssued, loads, log >>
    /\ ViewKept
    /\ NamesKept

\* The continuation of triggerGeminiAnalysis: the naming call made for the
\* processed image of load req.load has returned a name.  The result is applied
\* to whatever image is current.
NameResponse(req, name) ==
    /\ req \in naming
    /\ naming' = naming \ {req}
    /\ fileName' = name
    /\ aiSuggestedName' = name
    /\ isAnalysing' = FALSE
    /\ Plain
    /\ UNCHANGED << originalImage, processedImage, isProcessing, brushSize, tolerance,
                    smoothing, triggerAutoRemove, processedImageOverride, triggerUndo,
                    triggerManualApply, baseLayer, maskLayer, history, isDrawing,
                    autoTimers, aiPending, aiIssued, decoding, loads, log >>
    /\ ViewKept

(***************************************************************************)
(* Specifications.  Each lets a part of the events occur, so that its      *)
(* state space can be searched completely:                                 *)
(*   Spec       one image: painting, commit, undo, auto-removal and the AI *)
(*              path, with the sliders left at their defaults;             *)
(*   SpecTune   several images, without the AI path, with the three        *)
(*              sliders;                                                   *)
(*   SpecDeep   the strip S2 edited up to DeepApply commits, full-width    *)
(*              strokes and DeepResets auto-removals or AI calls that      *)
(*              return a decodable image;                                  *)
(*   SpecReload what App.tsx drives by itself, across images: loading,     *)
(*              auto-removal, the tolerance slider and the AI path;        *)
(*   SpecPaint  one image, both brush sizes, strokes whose edge cuts       *)
(*              through pixels, commit and undo;                           *)
(*   SpecSeg    one image, auto-removal and the tolerance slider over its  *)
(*              whole range;                                               *)
(*   SpecView   as SpecPaint, with the render mode switched at will;       *)
(*   SpecLive   one image and the AI path, under the assumption that the   *)
(*              service answers every call in the end;                     *)
(*   SpecStack  the strip S3 erased a pixel further with each of up to     *)
(*              StackApply commits, every one made with paint on the mask, *)
(*              then up to StackUndo undos;                                *)
(*   SpecName   several images with the naming call, the auto-removal and  *)
(*              a committed stroke.                                        *)
(***************************************************************************)
Next ==
    \/ \E id \in Sources : LoadImage(id) /\ loads = 0
    \/ AutoRemoveClick(MaxAuto)
    \/ AutoRemoveTimer
    \/ \E pt \in EdgePoints(maskLayer) : MouseDown(pt)
    \/ \E pt \in EdgePoints(maskLayer) : MouseMove(pt)
    \/ MouseUp
    \/ Undo(MaxUndo)
    \/ CommitMask(MaxApply)
    \/ AiRemoveClick(MaxAi)
    \/ \E req \in aiPending, out \in AiOutcomes : AiResponse(req, out)
    \/ \E d \in decoding : AiImageLoaded(d)
    \/ \E d \in decoding : AiImageError(d)

Spec == Init /\ [][Next]_vars

NextTune ==
    \/ \E id \in Sources : LoadImage(id)
    \/ NewImageClick
    \/ AutoRemoveClick(MaxAuto)
    \/ AutoRemoveTimer
    \/ \E val \in Tolerances : SetTolerance(val)
    \/ \E val \in Smoothings : SetSmoothing(val)
    \/ \E val \in BrushSizes : SetBrushSize(val)
    \/ \E pt \in PaintPoints(maskLayer) : MouseDown(pt)
    \/ \E pt \in PaintPoints(maskLayer) : MouseMove(pt)
    \/ MouseUp
    \/ Undo(TuneUndo)
    \/ CommitMask(TuneApply)

SpecTune == Init /\ [][NextTune]_vars

NextDeep ==
    \/ LoadImage("S2") /\ loads = 0
    \/ AutoRemoveClick(DeepResets - aiIssued)
    \/ AutoRemoveTimer
    \/ MouseDown(<<1, 1>>)
    \/ MouseUp
    \/ Undo(DeepUndo)
    \/ CommitMask(DeepApply)
    \/ AiRemoveClick(DeepResets - triggerAutoRemove - autoTimers)
    \/ \E req \in aiPending : AiResponse(req, [kind |-> "image", url |-> "A2"])
    \/ \E d \in decoding : AiImageLoaded(d)

SpecDeep == Init /\ [][NextDeep]_vars

NextPaint ==
    \/ \E id \in Sources : LoadImage(id) /\ loads = 0
    \/ \E val \in BrushSizes : SetBrushSize(val)
    \/ \E pt \in PaintPoints(maskLayer) \cup EdgePoints(maskLayer) : MouseDown(pt)
    \/ \E pt \in PaintPoints(maskLayer) \cup EdgePoints(maskLayer) : MouseMove(pt)
    \/ MouseUp
    \/ Undo(PaintUndo)
    \/ CommitMask(PaintApply)

\* The brush system: one image, both brush sizes, strokes whose edge cuts
\* through pixels, commits and undo.
SpecPaint == Init /\ [][NextPaint]_vars

NextSeg ==
    \/ \E id \in SegSources : LoadImage(id) /\ loads = 0
    \/ AutoRemoveClick(SegAuto)
    \/ AutoRemoveTimer
    \/ \E val \in MinTolerance..MaxTolerance : SetTolerance(val)

\* The segmentation system: one image, auto-removal, and the tolerance slider
\* over its whole range; smoothing stays at its initial 0.
SpecSeg == Init /\ [][NextSeg]_vars

NextView ==
    \/ \E id \in Sources : LoadImage(id) /\ loads = 0
    \/ \E val \in BrushSizes : SetBrushSize(val)
    \/ \E pt \in PaintPoints(maskLayer) \cup EdgePoints(maskLayer) : MouseDown(pt)
    \/ \E pt \in PaintPoints(maskLayer) \cup EdgePoints(maskLayer) : MouseMove(pt)
    \/ MouseUp
    \/ Undo(ViewUndo)
    \/ CommitMask(ViewApply)
    \/ TogglePreview

SpecView == Init /\ [][NextView]_vars

\* The stroke made before commit number k + 1: one stamp of the small brush
\* centred k pixels from the left end, which erases one pixel more than the
\* stroke before it.
StackPoint(k) == <<2 * k, 1>>

NextStack ==
    \/ LoadImage("S3") /\ loads = 0
    \/ SetBrushSize(MinBrush)
    \/ /\ brushSize = MinBrush
       /\ IsClear(maskLayer)
       /\ triggerUndo = 0
       /\ MouseDown(StackPoint(triggerManualApply))
    \/ MouseUp
    \/ ~IsClear(maskLayer) /\ triggerUndo = 0 /\ CommitMask(StackApply)
    \/ Undo(StackUndo)

SpecStack == Init /\ [][NextStack]_vars

\* The AI service answers a call, one way or another.
AiCompletes == \E req \in aiPending, out \in AiOutcomes : AiResponse(req, out)

NextLive ==
    \/ \E id \in Sources : LoadImage(id) /\ loads = 0
    \/ AutoRemoveClick(LiveAuto)
    \/ AutoRemoveTimer
    \/ \E pt \in EdgePoints(maskLayer) : MouseDown(pt)
    \/ MouseUp
    \/ CommitMask(LiveApply)
    \/ AiRemoveClick(LiveAi)
    \/ AiCompletes
    \/ \E d \in decoding : AiImageLoaded(d)
    \/ \E d \in decoding : AiImageError(d)

\* Every call to the service is answered in the end: generateContent settles.
SpecLive == Init /\ [][NextLive]_vars /\ WF_vars(AiCompletes)

NextReload ==
    \/ \E id \in Sources : LoadImage(id)
    \/ NewImageClick
    \/ AutoRemoveClick(MaxAuto)
    \/ AutoRemoveTimer
    \/ \E val \in Tolerances : SetTolerance(val)
    \/ AiRemoveClick(MaxAi)
    \/ \E req \in aiPending, out \in AiOutcomes : AiResponse(req, out)
    \/ \E d \in decoding : AiImageLoaded(d)
    \/ \E d \in decoding : AiImageError(d)

SpecReload == Init /\ [][NextReload]_vars

\* Loading, leaving and naming images, with the automatic removal and one
\* committed stroke.
NextName ==
    \/ \E id \in Sources : LoadImage(id)
    \/ NewImageClick
    \/ AutoRemoveClick(MaxAuto)
    \/ AutoRemoveTimer
    \/ \E pt \in EdgePoints(maskLayer) : MouseDown(pt)
    \/ MouseUp
    \/ CommitMask(MaxApply)
    \/ \E req \in naming, name \in SuggestedNames : NameResponse(req, name)

SpecName == Init /\ [][NextName]_vars

(***************************************************************************)
(* Properties.                                                             *)
(***************************************************************************)
\* The last n elements of a sequence, in order.
LastN(s, n) == IF Len(s) <= n THEN s ELSE SubSeq(s, Len(s) - n + 1, Len(s))

\* What a commit of the current mask would leave on the given layers.
Erased(layers) == DrawImage(layers.base, layers.mask, "destination-out")

\* C1: the history never holds more than HistoryCap snapshots, and a commit
\* made at capacity evicts the oldest one: the history is always the last
\* HistoryCap of the snapshots pushed, in the order they were committed.
C1_HistoryBounded ==
    /\ Len(history) <= HistoryCap
    /\ history = LastN(log, HistoryCap)

\* C1, reached: 25 commits in a row on the 1-entry history of a fresh load
\* leave the 20 most recent of the 26 snapshots, the eldest gone.
C1_Reached ==
    /\ triggerManualApply = 25
    /\ Len(log) = 26
    /\ Len(history) = HistoryCap
    /\ history[1] = log[7]
    /\ history[1] # log[1]

\* C2: an AI response that arrives after another image was loaded or an
\* auto-removal ran is discarded: its handling changes neither the base, nor
\* the mask, nor the history.
C2_StaleAiDiscarded ==
    [][(lastOp' = "aiOnload" /\ aiNote'.stale)
          => UNCHANGED << baseLayer, maskLayer, history >>]_vars

\* C3: an undo directly after a commit restores the base to what it was just
\* before that commit, also when the commit evicted the oldest snapshot, and
\* no undo changes the mask.
C3_UndoOfCommit ==
    /\ [](lastOp = "commitUndo" => baseLayer = before.base)
    /\ [][triggerUndo' # triggerUndo => maskLayer' = maskLayer]_vars

\* C3, reached: the 25th commit, made on a full history, erased painted pixels
\* and has been undone.
C3_Reached ==
    /\ lastOp = "commitUndo"
    /\ triggerManualApply = 25
    /\ triggerUndo = 1
    /\ triggerAutoRemove = 0
    /\ aiIssued = 0
    /\ Len(history) = HistoryCap - 1
    /\ ~IsClear(before.mask)
    /\ Erased(before) # before.base
    /\ baseLayer = before.base

\* C4: an undo on a history of more than one snapshot removes the last one
\* and puts the new last one on the base; on a history of one snapshot it
\* changes nothing, so the baseline is never removed.
C4_UndoStep ==
    [][triggerUndo' # triggerUndo =>
          IF Len(history) > 1
          THEN /\ history' = SubSeq(history, 1, Len(history) - 1)
               /\ GetImageData(baseLayer') = history'[Len(history')]
               /\ baseLayer'.w = baseLayer.w /\ baseLayer'.h = baseLayer.h
          ELSE /\ Len(history) = 1
               /\ UNCHANGED << baseLayer, maskLayer, history >>]_vars

\* C4, reached: of two undos the first found only the baseline and changed
\* nothing, the second removed the snapshot of the one commit made since.
C4_Reached ==
    /\ lastOp = "commitUndo"
    /\ triggerUndo = 2
    /\ triggerManualApply = 1
    /\ triggerAutoRemove = 0
    /\ loads = 1
    /\ Len(history) = 1
    /\ Erased(before) # before.base
    /\ baseLayer = before.base

\* C5: auto-removal pushes its result onto the existing history, so that an
\* undo directly after it restores the base as it was before the removal.
C5_AutoRemovePushes ==
    /\ lastOp = "autoRemove" =>
           /\ Len(history) > 1
           /\ history[Len(history)] = GetImageData(baseLayer)
    /\ lastOp = "autoRemoveUndo" => baseLayer = before.base

\* C6: a commit made while the mask is fully transparent changes neither the
\* base nor the history: nothing is pushed and nothing is evicted.
C6_EmptyCommitNoOp ==
    [][(triggerManualApply' # triggerManualApply /\ IsClear(maskLayer))
          => UNCHANGED << baseLayer, history >>]_vars

\* C7: after an image is loaded, whatever happened before, the base is the
\* image as drawn on a blank canvas of its size, the mask is transparent and
\* the history is exactly one snapshot of that base.
C7_LoadResets ==
    lastOp = "load" =>
        LET img == SourceImage(originalImage)
        IN  /\ baseLayer = DrawImage(Blank(img.w, img.h), img, "source-over")
            /\ maskLayer = Blank(img.w, img.h)
            /\ history = <<GetImageData(baseLayer)>>

\* C8: once an AI image has been applied, the base has the width and height
\* of that image.
C8_AiResizesBase ==
    (lastOp = "aiOnload" /\ aiNote.kind = "applied") =>
        /\ baseLayer.w = DecodeImage(aiNote.url).w
        /\ baseLayer.h = DecodeImage(aiNote.url).h

\* The workspace after the AI image of the given
\* data URL has been applied: the base shows that image over its whole area,
\* the mask is transparent, the history is one snapshot of the base.  (Which
\* size the base takes is the subject of C8.)
AiApplied(url) ==
    /\ baseLayer = DrawImageScaled(Blank(baseLayer.w, baseLayer.h), DecodeImage(url),
                                   baseLayer.w, baseLayer.h)
    /\ IsClear(maskLayer)
    /\ history = <<GetImageData(baseLayer)>>

\* C9: every decodable AI image that handleAiRemove receives for the image
\* still loaded is applied, also when it equals an earlier one: the workspace
\* is as AiApplied describes once its Image has loaded and, when the
\* workspace starts no Image for it and none is loading, at once.
C9_AiResultApplied ==
    /\ (/\ lastOp = "aiResponse"
        /\ aiNote.kind = "skipped"
        /\ ~aiNote.stale
        /\ DecodeImage(aiNote.url) # NoCanvas
        /\ \A d \in decoding : ~d.live) => AiApplied(aiNote.url)
    /\ (lastOp = "aiOnload" /\ aiNote.kind = "applied" /\ ~aiNote.stale) =>
           AiApplied(aiNote.url)

\* The steps in which the AI path fails: removeBackgroundWithAi throws or
\* returns null, or the data URL it returned does not decode.
AiFailureStep ==
    \/ lastOp' = "aiResponse" /\ aiNote'.kind \in {"null", "throw"}
    \/ lastOp' = "aiResponse" /\ DecodeImage(aiNote'.url) = NoCanvas
    \/ lastOp' = "aiDecodeError"

\* C10: no step in which the AI path fails changes the base, the mask or the
\* history.
C10_AiFailureHarmless ==
    [][AiFailureStep => UNCHANGED << baseLayer, maskLayer, history >>]_vars

\* C10, reached: a data URL that does not decode was handed to the workspace
\* of an edited session (a commit made, a stroke waiting on the mask), and
\* its Image has failed to load.
C10_Reached ==
    /\ lastOp = "aiDecodeError"
    /\ Mounted
    /\ Len(history) > 1
    /\ ~IsClear(maskLayer)
    /\ processedImageOverride = "garbage"

\* C11: an AI response without an image payload is surfaced to the user as a
\* thrown service error is: the step that handles either one shows the alert.
C11_NoPayloadSurfaced ==
    (lastOp = "aiResponse" /\ aiNote.kind \in {"null", "throw"}) => alertShown

\* C12: the image offered for download is always the preview composite of
\* the current base and the current mask: strokes not yet committed show as
\* erased, whatever the render mode.
C12_ExportIsPreview ==
    Mounted => Exported = ToDataURL(RenderCanvas(WS, TRUE))

\* The original image on a canvas of its own size, as a fresh load draws it.
FreshCopy(id) ==
    LET img == SourceImage(id)
    IN  DrawImage(Blank(img.w, img.h), img, "source-over")

\* A step in which the auto-remove effect of the mounted workspace runs: its
\* trigger is raised, or tolerance or smoothing change under a nonzero trigger.
AutoRemoveRuns ==
    /\ Mounted
    /\ \/ triggerAutoRemove' # triggerAutoRemove
       \/ /\ triggerAutoRemove # 0
          /\ tolerance' # tolerance \/ smoothing' # smoothing

C14_CommitErasesPainted ==
    (lastOp = "commit" /\ ~IsClear(before.mask)) =>
        /\ \A i \in 1..(baseLayer.w * baseLayer.h) :
              IF before.mask.px[i][4] # 0
              THEN baseLayer.px[i][4] = 0
              ELSE baseLayer.px[i] = before.base.px[i]
        /\ IsClear(maskLayer)
        /\ history[Len(history)] = GetImageData(baseLayer)

\* C14, the parts of the statement other than the alpha of painted pixels.
CommitFrame ==
    (lastOp = "commit" /\ ~IsClear(before.mask)) =>
        /\ \A i \in 1..(baseLayer.w * baseLayer.h) :
              before.mask.px[i][4] = 0 => baseLayer.px[i] = before.base.px[i]
        /\ IsClear(maskLayer)
        /\ history[Len(history)] = GetImageData(baseLayer)

\* C15: the preview rendering has alpha 0 wherever the mask has any paint,
\* however faint, and the alpha of the base elsewhere; the edit rendering
\* keeps the alpha of the base wherever the mask has no paint.
C15_PreviewIsBinary ==
    Mounted =>
        LET preview == RenderCanvas(WS, TRUE)
            edit == RenderCanvas(WS, FALSE)
        IN  \A i \in 1..(baseLayer.w * baseLayer.h) :
               IF maskLayer.px[i][4] # 0
               THEN preview.px[i][4] = 0
               ELSE /\ preview.px[i][4] = baseLayer.px[i][4]
                    /\ edit.px[i][4] = baseLayer.px[i][4]

\* The edit-mode half of the same statement, and the preview where the mask
\* has no paint.
RenderKeepsUncovered ==
    Mounted =>
        \A i \in 1..(baseLayer.w * baseLayer.h) :
           maskLayer.px[i][4] = 0 =>
              /\ RenderCanvas(WS, TRUE).px[i] = baseLayer.px[i]
              /\ RenderCanvas(WS, FALSE).px[i] = baseLayer.px[i]

\* C16: a brush stamp changes the mask only: the base, the history and the
\* image offered for download are the same after it as before, for every
\* brush size and every point of the canvas the mouse can be at.
C16_StrokePaintsMaskOnly ==
    [][lastOp' = "stroke" => UNCHANGED << baseLayer, history, processedImage >>]_vars

\* C16 witness: a stamp of the small brush has put paint on the mask, part of
\* it on a pixel its edge cuts through, above a base that is still whole.
C16_Reached ==
    /\ lastOp = "stroke"
    /\ brushSize = MinBrush
    /\ \E i \in 1..(maskLayer.w * maskLayer.h) : maskLayer.px[i][4] \in 1..254
    /\ baseLayer = FreshCopy(originalImage)

\* C17: while an image is loaded, the last snapshot of the history is the
\* base layer as it stands, pixel for pixel, whichever of load, auto-removal,
\* AI result, commit or undo wrote the base last.
C17_HistoryEndsWithBase ==
    Mounted => /\ history # <<>>
               /\ history[Len(history)] = GetImageData(baseLayer)

\* C17 witness: a commit has just erased something, and the snapshot it added
\* to the history is the new base, unlike the snapshot before it.
C17_Reached ==
    /\ lastOp = "commit"
    /\ Len(history) >= 2
    /\ history[Len(history)] = GetImageData(baseLayer)
    /\ history[Len(history) - 1] # GetImageData(baseLayer)

\* C18: the image sent with an AI request is the base layer as it stands when
\* the request is made, committed erasures included.  Stated for requests
\* made before any auto-removal, where commits and undo alone shaped the base.
C18_AiGetsCurrentBase ==
    [][(aiIssued' # aiIssued /\ triggerAutoRemove = 0) =>
          \A req \in aiPending' \ aiPending :
             SentImage(req) = GetImageData(baseLayer)]_vars

\* C19: while an AI request is outstanding every local operation can still be
\* invoked; for auto-removal that means its button is enabled.
C19_LocalOpsDuringAi ==
    (Mounted /\ aiPending # {}) => AutoRemoveButtonEnabled

\* All pixels of an image have one colour.
Uniform(img) == \A i, j \in 1..(img.w * img.h) : img.px[i] = img.px[j]

\* C20: once auto-removal has run on an image of one colour, with smoothing 0
\* and any tolerance from 1 to 100, every pixel of the base has alpha 0.
C20_UniformImageVanishes ==
    (/\ Mounted
     /\ triggerAutoRemove # 0
     /\ Uniform(SourceImage(originalImage))
     /\ smoothing = 0
     /\ tolerance \in MinTolerance..MaxTolerance) =>
        /\ baseLayer.w * baseLayer.h = SourceImage(originalImage).w * SourceImage(originalImage).h
        /\ IsClear(baseLayer)

\* C20 witness: the 4 x 4 grey square after auto-removal at tolerance 50 and
\* smoothing 0: sixteen pixels, all of alpha 0.
C20_Reached ==
    /\ originalImage = "U4"
    /\ triggerAutoRemove # 0
    /\ tolerance = 50
    /\ smoothing = 0
    /\ Len(baseLayer.px) = 16
    /\ \A i \in 1..16 : baseLayer.px[i][4] = 0

\* C21: switching the render mode, any number of times, leaves the base, the
\* mask and the history as they were, and the display canvas always shows
\* what renderCanvas makes of the current base, mask and mode: rendering
\* again under the same three gives the same raster.
C21_RenderIsPure ==
    [][/\ manualMaskPreview' # manualMaskPreview =>
              UNCHANGED << baseLayer, maskLayer, history >>
       /\ Mounted' => display' = RenderCanvas(WS', manualMaskPreview')]_vars

\* C21 witness: the mode has just been switched to preview over a mask that
\* holds paint, so the display differs from the base, which is untouched.
C21_Reached ==
    /\ lastOp = "render"
    /\ manualMaskPreview
    /\ ~IsClear(maskLayer)
    /\ display # baseLayer
    /\ baseLayer = FreshCopy(originalImage)

\* Two rasters have the same width and height.
SameSize(a, b) == a.w = b.w /\ a.h = b.h

\* C22: while an image is loaded, the mask and every snapshot of the history
\* have the width and height of the base, also after an AI result of another
\* size has been applied and an auto-removal or an undo has followed.
C22_LayersSameSize ==
    Mounted =>
        /\ SameSize(maskLayer, baseLayer)
        /\ \A k \in 1..Len(history) : SameSize(history[k], baseLayer)

\* C22 witness: an AI result whose raster is not of the size of the upload
\* has just been applied, and mask and base still have the upload's size.
C22_Reached ==
    /\ lastOp = "aiOnload"
    /\ aiNote.kind = "applied"
    /\ ~SameSize(DecodeImage(aiNote.url), SourceImage(originalImage))
    /\ SameSize(baseLayer, SourceImage(originalImage))
    /\ SameSize(maskLayer, baseLayer)

\* The base after the first m strokes of the undo-stack system have been
\* committed, computed from the upload and the strokes alone.
RECURSIVE StackBase(_)
StackBase(m) ==
    IF m = 0 THEN FreshCopy("S3")
    ELSE LET prev == StackBase(m - 1)
             pt == StackPoint(m - 1)
             stamped == DrawOnMask([base |-> prev, mask |-> Blank(prev.w, prev.h),
                                    history |-> <<>>], pt[1], pt[2], MinBrush)
         IN  Erased(stamped)

\* C23: after k commits, each of a mask with paint on it, and then j undos,
\* for k up to 19, the base is the base as it was after k - j commits (the
\* upload once j reaches k), and the history holds, oldest first, the upload
\* and the base after each of the first k - j commits, none of them altered
\* by what happened to the base since.
C23_UndoReplaysCommits ==
    (Mounted /\ originalImage = "S3" /\ triggerManualApply < HistoryCap) =>
        LET n == Max2(triggerManualApply - triggerUndo, 0)
        IN  /\ baseLayer = StackBase(n)
            /\ history = [i \in 1..(n + 1) |-> GetImageData(StackBase(i - 1))]

\* C23 witness: nineteen commits that each erased more, then nineteen undos:
\* the base is the upload again and the history is down to its first entry.
C23_Reached ==
    /\ originalImage = "S3"
    /\ triggerManualApply = 19
    /\ triggerUndo = 19
    /\ StackBase(19) # StackBase(18)
    /\ baseLayer = FreshCopy("S3")
    /\ Len(history) = 1

\* C24: while an image is loaded the history holds at least one snapshot,
\* whatever undos, commits (evicting or not), auto-removals and AI results
\* have occurred.
C24_HistoryNeverEmpty ==
    Mounted => Len(history) >= 1

\* C24 witness: an undo was asked for right after the load, when the history
\* held the snapshot of the upload alone, and that snapshot is still there.
C24_Reached ==
    /\ Mounted
    /\ triggerUndo = 1
    /\ triggerManualApply = 0
    /\ triggerAutoRemove = 0
    /\ aiIssued = 0
    /\ history = <<GetImageData(FreshCopy(originalImage))>>

\* C25: a change of tolerance or smoothing, with no new click on "Apply Smart
\* Remove", leaves base, mask and history as they were, also after an earlier
\* auto-removal.  Stated for the mask, strokes not yet committed included.
C25_SlidersAreInert ==
    [][(/\ tolerance' # tolerance \/ smoothing' # smoothing
        /\ triggerAutoRemove' = triggerAutoRemove) =>
          UNCHANGED maskLayer]_vars

\* C26: once an AI removal has been asked for, the call is answered and
\* isProcessing is false again, whether the answer is an image, no image or
\* a thrown error.
C26_ProcessingClears ==
    (aiPending # {}) ~> (aiPending = {} /\ ~isProcessing)

\* C26 witness: a call has just ended with a thrown error, the alert was
\* shown and isProcessing is false.
C26_Reached ==
    /\ lastOp = "aiResponse"
    /\ aiNote.kind = "throw"
    /\ alertShown
    /\ aiPending = {}
    /\ ~isProcessing

\* C27: whenever no timer, AI call or image decode is outstanding, the image
\* offered for download is the encoding of the base layer of the image that
\* is loaded now, never one made from an image loaded before.
C27_ExportFollowsBase ==
    (Mounted /\ autoTimers = 0 /\ aiPending = {} /\ decoding = {}) =>
        Exported = ToDataURL(baseLayer)

\* C28: a filename suggestion requested for one loaded image never overwrites
\* the fileName of an image loaded later: when the naming result of an
\* earlier load arrives, the fileName set by the later load is left as it is.
C28_LateNameIgnored ==
    [][\A req \in naming :
          (naming' = naming \ {req} /\ Mounted /\ req.load # loads) =>
              fileName' = fileName]_vars

====
